---- MODULE Spec2Model ----
(***************************************************************************)
(* Model of tests-e2e/success-python-joined/exec.py: a driver that reads a *)
(* JSON array of Python snippets from standard input, executes each one in *)
(* a shared scope while its standard output is captured, and writes the    *)
(* captured texts as a JSON array to standard output.                      *)
(*                                                                         *)
(* Text is a sequence of units.  The units of a snippet are its statements *)
(* (one per line), the units of a captured output are the characters       *)
(* "1", "2" and "\n", and the units of a JSON document are the JSON        *)
(* punctuation, the units of its strings (with the newline escaped) and    *)
(* the number "5".                                                         *)
(***************************************************************************)
EXTENDS Integers, Sequences, FiniteSets, TLC

\* Bound of the model: the longest input array.
MaxSnippets == 2

---------------------------------------------------------------------------
\* The snippet language: the statements a snippet is made of.

Assigns == {"x=1", "x=2"}
Stmts == Assigns \cup {"print(x)", "print(1)", "$"}

Target(s) == "x"
Value(s) == IF s = "x=1" THEN 1 ELSE 2
Str(v) == IF v = 1 THEN <<"1">> ELSE <<"2">>

SeqsUpTo(S, n) == UNION {[1..k -> S] : k \in 0..n}

StrVal(t) == [type |-> "str", val |-> t]
IntVal == [type |-> "int", val |-> <<>>]
ListVal(items) == [type |-> "list", items |-> items]
ScalarVal == [type |-> "int", items |-> <<>>]
Unset == [type |-> "unset", items |-> <<>>]

\* The snippets of the inputs: the empty one, every snippet of one statement,
\* and four of two statements: output and then a NameError, a binding next to
\* a syntax error, a reassignment, a binding that the snippet itself prints.
Compound ==
    { <<"print(1)", "print(x)">>, <<"x=1", "$">>, <<"x=1", "x=2">>,
      <<"x=2", "print(x)">> }
Snippets == {StrVal(c) : c \in SeqsUpTo(Stmts, 1) \cup Compound}
Elements == Snippets \cup {IntVal}
InputLists == SeqsUpTo(Elements, MaxSnippets)

---------------------------------------------------------------------------
\* json.dumps and json.loads on documents made of arrays, strings and the
\* number 5.

Escape(u) == IF u = "\n" THEN "\\n" ELSE u
Unescape(u) == IF u = "\\n" THEN "\n" ELSE u

DumpElement(e) ==
    IF e.type = "int" THEN <<"5">>
    ELSE <<"\"">> \o [k \in 1..Len(e.val) |-> Escape(e.val[k])] \o <<"\"">>

RECURSIVE DumpItems(_)
DumpItems(items) ==
    IF items = <<>> THEN <<>>
    ELSE IF Len(items) = 1 THEN DumpElement(items[1])
    ELSE DumpElement(items[1]) \o <<",", " ">> \o DumpItems(Tail(items))

JsonDumps(v) ==
    IF v.type = "int" THEN <<"5">>
    ELSE <<"[">> \o DumpItems(v.items) \o <<"]">>

ParseError == [ok |-> FALSE, value |-> Unset]

SkipSpace(t, k) == IF k <= Len(t) /\ t[k] = " " THEN k + 1 ELSE k

ClosingQuote(t, k) ==
    LET qs == {j \in (k + 1)..Len(t) : t[j] = "\""}
    IN  IF qs = {} THEN 0 ELSE CHOOSE j \in qs : \A j2 \in qs : j <= j2

RECURSIVE ParseElement(_, _, _)
RECURSIVE ParseSeparator(_, _, _)
ParseElement(t, k0, acc) ==
    LET k == SkipSpace(t, k0) IN
    IF k > Len(t) THEN ParseError
    ELSE IF t[k] = "5" THEN ParseSeparator(t, k + 1, Append(acc, IntVal))
    ELSE IF t[k] = "\"" THEN
        LET q == ClosingQuote(t, k) IN
        IF q = 0 THEN ParseError
        ELSE ParseSeparator(t, q + 1,
                Append(acc, StrVal([j \in 1..(q - k - 1) |-> Unescape(t[k + j])])))
    ELSE ParseError

ParseSeparator(t, k0, acc) ==
    LET k == SkipSpace(t, k0) IN
    IF k > Len(t) THEN ParseError
    ELSE IF t[k] = "," THEN ParseElement(t, k + 1, acc)
    ELSE IF t[k] = "]" /\ k = Len(t) THEN [ok |-> TRUE, value |-> ListVal(acc)]
    ELSE ParseError

JsonLoads(t) ==
    IF t = <<>> THEN ParseError
    ELSE IF t = <<"5">> THEN [ok |-> TRUE, value |-> ScalarVal]
    ELSE IF t[1] # "[" THEN ParseError
    ELSE IF t = <<"[", "]">> THEN [ok |-> TRUE, value |-> ListVal(<<>>)]
    ELSE ParseElement(t, 2, <<>>)

\* What standard input can hold.
Malformed ==
    { <<>>, <<"[">>, <<"[", ",", "]">>, <<"[", "\"", "x=1", "]">>,
      <<"[", "]", "]">>, <<"[", "5", "\"", "\"", "]">> }
StdinTexts ==
    {JsonDumps(ListVal(l)) : l \in InputLists} \cup {JsonDumps(ScalarVal)} \cup Malformed

---------------------------------------------------------------------------
\* exec(code, scope) as a function of the code and the dict it runs in.

EmptyDict == [v \in {} |-> 0]
Bind(d, var, val) == [v \in DOMAIN d \cup {var} |-> IF v = var THEN val ELSE d[v]]

Compiles(e) == e.type = "str" /\ \A k \in 1..Len(e.val) : e.val[k] # "$"

RECURSIVE RunStmts(_, _, _, _)
RunStmts(c, k, d, out) ==
    IF k > Len(c) THEN [ok |-> TRUE, dict |-> d, out |-> out]
    ELSE IF c[k] \in Assigns THEN RunStmts(c, k + 1, Bind(d, Target(c[k]), Value(c[k])), out)
    ELSE IF c[k] = "print(1)" THEN RunStmts(c, k + 1, d, out \o Str(1) \o <<"\n">>)
    ELSE IF c[k] = "print(x)" /\ "x" \in DOMAIN d
        THEN RunStmts(c, k + 1, d, out \o Str(d["x"]) \o <<"\n">>)
    ELSE [ok |-> FALSE, dict |-> d, out |-> out]

ExecResult(e, d) ==
    IF Compiles(e) THEN RunStmts(e.val, 1, d, <<>>)
    ELSE [ok |-> FALSE, dict |-> d, out |-> <<>>]

---------------------------------------------------------------------------
\* The state of one process run.

VARIABLES
    stdin,       \* the text read from standard input, empty until it is read
    pc,          \* the position of the process in the script
    inputs,      \* the module's name inputs (line 11)
    heap,        \* the dicts allocated so far, by object id
    scope,       \* the module's name scope: an object id, 0 while unbound
    outputs,     \* the list the comprehension of line 13 builds
    i,           \* how many elements the comprehension has consumed
    code,        \* run's parameter code
    argScope,    \* run's parameter scope: an object id
    ip,          \* the statement of code that exec runs next
    f,           \* the text of the StringIO of the current call of run
    sysStdout,   \* what sys.stdout refers to: "real" or "buf"
    oldTargets,  \* redirect_stdout's stack of replaced streams
    realOut,     \* the chunks written to the process's standard output
    exitStatus   \* "running", "zero" or "nonzero"

vars == <<stdin, pc, inputs, heap, scope, outputs, i, code, argScope, ip, f,
          sysStdout, oldTargets, realOut, exitStatus>>

driverVars == <<inputs, heap, scope, outputs, i>>
runVars == <<code, argScope, ip, f>>
streamVars == <<sysStdout, oldTargets, realOut>>

Init ==
    /\ stdin = <<>>
    /\ pc = "read"
    /\ inputs = Unset
    /\ heap = <<>>
    /\ scope = 0
    /\ outputs = <<>>
    /\ i = 0
    /\ code = StrVal(<<>>)
    /\ argScope = 0
    /\ ip = 0
    /\ f = <<>>
    /\ sysStdout = "real"
    /\ oldTargets = <<>>
    /\ realOut = <<>>
    /\ exitStatus = "running"

\* sys.stdout.write(text), to whatever sys.stdout refers to now.
WriteStdout(text) ==
    IF sysStdout = "buf"
    THEN f' = f \o text /\ UNCHANGED realOut
    ELSE realOut' = Append(realOut, text) /\ UNCHANGED f

\* Faulty variant: the decode error is swallowed and the script goes on.
IgnoreParseError == "mkscope"

\* json.loads raises JSONDecodeError, which nothing catches.
AfterParseError == "raise"

\* Line 11: inputs = json.loads(sys.stdin.read()), for any text on standard
\* input.
ReadInput ==
    /\ pc = "read"
    /\ \E t \in StdinTexts :
        /\ stdin' = t
        /\ LET r == JsonLoads(t) IN
            IF r.ok THEN inputs' = r.value /\ pc' = "mkscope"
            ELSE inputs' = inputs /\ pc' = AfterParseError
    /\ UNCHANGED <<heap, scope, outputs, i, runVars, streamVars, exitStatus>>

\* Line 12: scope = {}
MakeScope ==
    /\ pc = "mkscope"
    /\ heap' = Append(heap, EmptyDict)
    /\ scope' = Len(heap) + 1
    /\ pc' = "iter"
    /\ UNCHANGED <<stdin, inputs, outputs, i, runVars, streamVars, exitStatus>>

\* Faulty variant: a value that is no list is taken for an empty one.
IterLenient == "next"

\* iter(inputs): TypeError for a value that is not iterable.
IterResult == IF inputs.type = "list" THEN "next" ELSE "raise"

\* Line 13: the comprehension takes an iterator of inputs.
BeginLoop ==
    /\ pc = "iter"
    /\ pc' = IterResult
    /\ outputs' = <<>>
    /\ i' = 0
    /\ UNCHANGED <<stdin, inputs, heap, scope, runVars, streamVars, exitStatus>>

\* Faulty variant: every call of run gets a scope of its own, run(code, {}).
CallRunFreshScope ==
    /\ pc = "next"
    /\ i < Len(inputs.items)
    /\ code' = inputs.items[i + 1]
    /\ heap' = Append(heap, EmptyDict)
    /\ argScope' = Len(heap) + 1
    /\ ip' = 0
    /\ pc' = "enter"
    /\ UNCHANGED <<stdin, inputs, scope, outputs, i, f, streamVars, exitStatus>>

\* Line 13: the next element is bound to code and run(code, scope) is called.
CallRun ==
    /\ pc = "next"
    /\ i < Len(inputs.items)
    /\ code' = inputs.items[i + 1]
    /\ argScope' = scope
    /\ ip' = 0
    /\ pc' = "enter"
    /\ UNCHANGED <<stdin, driverVars, f, streamVars, exitStatus>>

\* Line 13: the iterator is exhausted and the list is bound to outputs.
LoopDone ==
    /\ pc = "next"
    /\ i = Len(inputs.items)
    /\ pc' = "write"
    /\ UNCHANGED <<stdin, driverVars, runVars, streamVars, exitStatus>>

\* Line 7: with contextlib.redirect_stdout(io.StringIO()) as f
\* Faulty variant: one buffer serves every call.
StaleBuffer == f
\* io.StringIO(): a new, empty buffer.
FreshBuffer == <<>>
\* Faulty variant: the stream is not redirected.
NoRedirect == "real"
\* redirect_stdout.__enter__: sys.stdout becomes the buffer.
RedirectTarget == "buf"
EnterRedirect ==
    /\ pc = "enter"
    /\ f' = FreshBuffer
    /\ oldTargets' = Append(oldTargets, sysStdout)
    /\ sysStdout' = RedirectTarget
    /\ pc' = "compile"
    /\ UNCHANGED <<stdin, driverVars, code, argScope, ip, realOut, exitStatus>>

\* Line 8: exec compiles code before it runs any of it.
CompileOk ==
    /\ pc = "compile"
    /\ Compiles(code)
    /\ ip' = 1
    /\ pc' = "stmt"
    /\ UNCHANGED <<stdin, driverVars, code, argScope, f, streamVars, exitStatus>>

\* Line 8: TypeError for a code that is no string, SyntaxError for one that
\* does not compile.
CompileFail ==
    /\ pc = "compile"
    /\ ~Compiles(code)
    /\ pc' = "unwind"
    /\ UNCHANGED <<stdin, driverVars, runVars, streamVars, exitStatus>>

\* Line 8: exec runs an assignment in the dict it was given.
StmtAssign ==
    /\ pc = "stmt"
    /\ ip <= Len(code.val)
    /\ code.val[ip] \in Assigns
    /\ heap' = [heap EXCEPT ![argScope] =
                    Bind(heap[argScope], Target(code.val[ip]), Value(code.val[ip]))]
    /\ ip' = ip + 1
    /\ UNCHANGED <<stdin, pc, inputs, scope, outputs, i, code, argScope, f,
                   streamVars, exitStatus>>

\* Line 8: exec runs print(x) with x bound.
StmtPrint ==
    /\ pc = "stmt"
    /\ ip <= Len(code.val)
    /\ code.val[ip] = "print(x)"
    /\ "x" \in DOMAIN heap[argScope]
    /\ WriteStdout(Str(heap[argScope]["x"]) \o <<"\n">>)
    /\ ip' = ip + 1
    /\ UNCHANGED <<stdin, pc, driverVars, code, argScope, sysStdout, oldTargets,
                   exitStatus>>

\* Line 8: exec runs print(x) with x unbound: NameError.
StmtNameError ==
    /\ pc = "stmt"
    /\ ip <= Len(code.val)
    /\ code.val[ip] = "print(x)"
    /\ "x" \notin DOMAIN heap[argScope]
    /\ pc' = "unwind"
    /\ UNCHANGED <<stdin, driverVars, runVars, streamVars, exitStatus>>

\* Line 8: exec runs print(1).
StmtPrintLiteral ==
    /\ pc = "stmt"
    /\ ip <= Len(code.val)
    /\ code.val[ip] = "print(1)"
    /\ WriteStdout(Str(1) \o <<"\n">>)
    /\ ip' = ip + 1
    /\ UNCHANGED <<stdin, pc, driverVars, code, argScope, sysStdout, oldTargets,
                   exitStatus>>

\* Line 8: exec returns after the last statement.
ExecDone ==
    /\ pc = "stmt"
    /\ ip > Len(code.val)
    /\ pc' = "exit"
    /\ UNCHANGED <<stdin, driverVars, runVars, streamVars, exitStatus>>

\* Faulty variant: leaving the block does not restore the stream.
KeepCapture == sysStdout
\* redirect_stdout.__exit__: sys.stdout is set back to the replaced stream.
Restored == oldTargets[Len(oldTargets)]
\* Faulty variant: the stream is restored by a statement after exec, which an
\* exception skips.
LeakCapture == sysStdout
\* redirect_stdout.__exit__ runs when an exception leaves the block, too.
RestoredOnError == oldTargets[Len(oldTargets)]

\* Lines 7-8: the with block is left normally.
ExitRedirect ==
    /\ pc = "exit"
    /\ sysStdout' = Restored
    /\ oldTargets' = SubSeq(oldTargets, 1, Len(oldTargets) - 1)
    /\ pc' = "ret"
    /\ UNCHANGED <<stdin, driverVars, runVars, realOut, exitStatus>>

\* Faulty variant: the exception is suppressed and run returns what was captured.
SwallowedUnwind == "ret"
\* redirect_stdout.__exit__ returns None: the exception goes on.
AfterUnwind == "raise"

\* Lines 7-8: the with block is left by the exception exec raised, which
\* then leaves run.
UnwindRedirect ==
    /\ pc = "unwind"
    /\ sysStdout' = RestoredOnError
    /\ oldTargets' = SubSeq(oldTargets, 1, Len(oldTargets) - 1)
    /\ pc' = AfterUnwind
    /\ UNCHANGED <<stdin, driverVars, runVars, realOut, exitStatus>>

\* Line 9 and line 13: run returns f.getvalue(), which the comprehension
\* appends to its list.
\* Faulty variant: the result is put in front of the list.
CollectedInFront == <<StrVal(f)>> \o outputs
Collected == Append(outputs, StrVal(f))
\* Faulty variant: the iterator skips an element.
SkipIndex == i + 2
NextIndex == i + 1
Return ==
    /\ pc = "ret"
    /\ outputs' = Collected
    /\ i' = NextIndex
    /\ pc' = "next"
    /\ UNCHANGED <<stdin, inputs, heap, scope, runVars, streamVars, exitStatus>>

\* Line 15: sys.stdout.write(json.dumps(outputs)), and the script ends.
WriteOutput ==
    /\ pc = "write"
    /\ realOut' = Append(realOut, JsonDumps(ListVal(outputs)))
    /\ pc' = "done"
    /\ exitStatus' = "zero"
    /\ UNCHANGED <<stdin, driverVars, runVars, sysStdout, oldTargets>>

\* An exception nobody catches reaches the top of the module: the interpreter
\* exits with a non-zero status.
Propagate ==
    /\ pc = "raise"
    /\ pc' = "failed"
    /\ exitStatus' = "nonzero"
    /\ UNCHANGED <<stdin, driverVars, runVars, streamVars>>

Next ==
    \/ ReadInput
    \/ MakeScope
    \/ BeginLoop
    \/ CallRun
    \/ LoopDone
    \/ EnterRedirect
    \/ CompileOk
    \/ CompileFail
    \/ StmtAssign
    \/ StmtPrint
    \/ StmtNameError
    \/ StmtPrintLiteral
    \/ ExecDone
    \/ ExitRedirect
    \/ UnwindRedirect
    \/ Return
    \/ WriteOutput
    \/ Propagate

Spec == Init /\ [][Next]_vars

\* The interpreter runs one thread and every step of it terminates.
FairSpec == Spec /\ WF_vars(Next)

---------------------------------------------------------------------------
\* What the comprehension of line 13 computes, as a function of the input.

Parsed == JsonLoads(stdin)
Items == Parsed.value.items
ValidInput == stdin \notin Malformed /\ Parsed.ok /\ Parsed.value.type = "list"

\* The dict in which element k runs: the one the elements before it left.
RECURSIVE DictBefore(_, _)
DictBefore(items, k) ==
    IF k <= 1 THEN EmptyDict
    ELSE ExecResult(items[k - 1], DictBefore(items, k - 1)).dict

ExpectedOut(items, k) == ExecResult(items[k], DictBefore(items, k)).out
Fails(items, k) == ~ExecResult(items[k], DictBefore(items, k)).ok
NoSnippetFails(items) == \A k \in 1..Len(items) : ~Fails(items, k)
FirstFailure(items) ==
    CHOOSE k \in 1..Len(items) :
        Fails(items, k) /\ \A j \in 1..(k - 1) : ~Fails(items, j)

InRun == {"enter", "compile", "stmt", "exit", "unwind", "ret"}
InWith == {"compile", "stmt", "exit", "unwind"}

---------------------------------------------------------------------------
\* C1: for a valid input of n snippets none of which fails, the run does not
\* fail, and what it has written when it is done is one JSON array of exactly
\* n strings whose k-th string is the output of the k-th snippet, in input
\* order; the empty input yields the empty array.
C1_OutputMatchesInput ==
    (pc # "read" /\ ValidInput /\ NoSnippetFails(Items)) =>
        /\ pc \notin {"unwind", "raise", "failed"}
        /\ pc = "done" =>
            /\ Len(realOut) = 1
            /\ LET w == JsonLoads(realOut[1]) IN
                /\ w.ok
                /\ w.value.type = "list"
                /\ Len(w.value.items) = Len(Items)
                /\ \A k \in 1..Len(Items) :
                    w.value.items[k] = StrVal(ExpectedOut(Items, k))
            /\ (Items = <<>> => realOut[1] = <<"[", "]">>)

C1_Witness ==
    /\ pc = "done"
    /\ stdin = <<"[", "\"", "x=1", "\"", ",", " ", "\"", "print(x)", "\"", "]">>
    /\ realOut = << <<"[", "\"", "\"", ",", " ", "\"", "1", "\\n", "\"", "]">> >>

\* C2: every collected output is exactly the text its own snippet printed:
\* a call of run starts with an empty buffer, the buffer holds only what the
\* current snippet has printed, and a snippet that prints nothing yields "".
C2_OutputIsOwnText ==
    /\ \A k \in 1..Len(outputs) : outputs[k] = StrVal(ExpectedOut(Items, k))
    /\ pc = "compile" => f = <<>>
    /\ pc = "ret" => f = ExpectedOut(Items, i + 1)

C2_Witness ==
    /\ pc = "next"
    /\ outputs = <<StrVal(<<"1", "\n">>), StrVal(<<>>)>>

\* C3: one scope is created per run, every call of run gets that scope, and
\* when snippet i starts the scope holds the bindings the snippets before it
\* left, the latest assignment winning.
C3_SharedScope ==
    /\ Len(heap) <= 1
    /\ pc \in InRun => Len(heap) = 1 /\ scope = 1 /\ argScope = scope
    /\ pc = "compile" => heap[argScope] = DictBefore(Items, i + 1)

C3_Witness ==
    /\ pc = "compile"
    /\ i = 1
    /\ Items[1] = StrVal(<<"x=1", "x=2">>)
    /\ heap[argScope]["x"] = 2

\* C4: if a snippet fails, no snippet after it is executed, nothing is ever
\* written to standard output, and the process ends failed with a non-zero
\* exit status.
FailingInput == pc # "read" /\ ValidInput /\ ~NoSnippetFails(Items)
C4_AbortOnFailure ==
    /\ [](FailingInput =>
            /\ i < FirstFailure(Items)
            /\ realOut = <<>>
            /\ pc \notin {"write", "done"}
            /\ exitStatus # "zero")
    /\ (FailingInput ~> (pc = "failed" /\ exitStatus = "nonzero" /\ realOut = <<>>))

C4_Witness ==
    /\ pc = "failed"
    /\ exitStatus = "nonzero"
    /\ Len(Items) = 2
    /\ outputs = <<StrVal(<<"1", "\n">>)>>
    /\ Items[2] = StrVal(<<"x=1", "$">>)

\* C5: snippets run one at a time in input order: while run is active for
\* element i the outputs of exactly the i elements before it are collected,
\* no capture is nested, and the index advances by one, only when run returns
\* and its output is collected.
C5_Sequential ==
    /\ [](pc \in InRun =>
            /\ Len(outputs) = i
            /\ i < Len(inputs.items)
            /\ code = inputs.items[i + 1]
            /\ Len(oldTargets) <= 1)
    /\ [][/\ (i' # i => pc = "ret" /\ i' = i + 1 /\ Len(outputs') = i')
          /\ (pc' = "enter" => pc = "next" /\ Len(outputs) = i)]_vars

C5_Witness ==
    /\ pc = "stmt"
    /\ i = 1
    /\ Len(outputs) = 1
    /\ code = StrVal(<<"print(x)">>)

\* C6: the input is read and parsed before any snippet runs, and standard
\* output is written at most once, only after every snippet has finished.
C6_ReadExecuteWrite ==
    /\ pc \in InRun => Parsed.ok /\ inputs = Parsed.value
    /\ Len(realOut) <= 1
    /\ realOut # <<>> =>
        /\ pc = "done"
        /\ i = Len(inputs.items)
        /\ Len(outputs) = Len(inputs.items)

C6_Witness ==
    /\ pc = "write"
    /\ realOut = <<>>
    /\ outputs = <<StrVal(<<"1", "\n">>), StrVal(<<"1", "\n">>)>>

\* C7: if standard input is not valid JSON, no scope is created, no snippet
\* is executed, standard output stays empty, and the process ends failed
\* with a non-zero exit status.
BadJson == pc # "read" /\ stdin \in Malformed
C7_MalformedInput ==
    /\ [](BadJson =>
            /\ pc \in {"raise", "failed"}
            /\ heap = <<>>
            /\ scope = 0
            /\ i = 0
            /\ outputs = <<>>
            /\ realOut = <<>>
            /\ exitStatus # "zero")
    /\ (BadJson ~> (pc = "failed" /\ exitStatus = "nonzero"))

C7_Witness ==
    /\ pc = "failed"
    /\ stdin = <<"[", "\"", "x=1", "]">>
    /\ heap = <<>>

\* C8: sys.stdout is the capture buffer exactly while one snippet is being
\* executed inside the with block of run; before the first snippet, between
\* two snippets and when the JSON is written it is the original stream.
C8_RedirectOnlyWhileExecuting ==
    /\ sysStdout = "buf" <=> pc \in InWith
    /\ Len(oldTargets) = (IF pc \in InWith THEN 1 ELSE 0)
    /\ pc \in InWith => oldTargets = <<"real">>

C8_Witness ==
    /\ pc = "next"
    /\ i = 1
    /\ Len(inputs.items) = 2
    /\ sysStdout = "real"

\* C9: when a snippet fails, sys.stdout is back at the original stream before
\* the failure leaves run.
C9_RestoredOnFailure ==
    /\ [](pc \in {"raise", "failed"} => sysStdout = "real" /\ oldTargets = <<>>)
    /\ [][pc = "unwind" => pc' = "raise" /\ sysStdout' = "real"]_vars

C9_Witness ==
    /\ pc = "raise"
    /\ code = StrVal(<<"print(1)", "print(x)">>)
    /\ f = <<"1", "\n">>
    /\ sysStdout = "real"

====
